---- MODULE Spec2Model ----
(***************************************************************************)
(* Model of src/src/api/models.py: the User and Event records, their       *)
(* validated setters, password hashing, range validation, save() and       *)
(* serialize().                                                            *)
(*                                                                         *)
(* Four specifications share the variables:                                *)
(*   Spec       User password operations, serialize, store and reload      *)
(*   SpecEmail  validate_email / set_email over bounded strings            *)
(*   SpecEvent  Event field assignment, range validators and save()        *)
(*   SpecDate   validate_date / set_date over date texts                   *)
(***************************************************************************)
EXTENDS Integers, Sequences, FiniteSets, TLC

VARIABLES
    user,            \* the in-memory User object the caller works on
    loaded,          \* a User object read back from the stored row
    user_row,        \* the row of table "user" (declared columns only)
    event,           \* the in-memory Event object
    committed,       \* the row of table "event" the database holds
    checks_enforced, \* whether the database engine enforces CHECK constraints
    input,           \* the text handed to the string validators
    last,            \* the last call made on the Event or a validator
    trace            \* the calls made on the User, oldest first

vars == <<user, loaded, user_row, event, committed, checks_enforced, input,
          last, trace>>

----------------------------------------------------------------------------
(* Bounds *)

\* number of distinct values os.urandom(32) can return in the model
NumSalts == 2
\* longest caller sequence on a User
MaxCalls == 4
\* longest text handed to validate_email / set_email
MaxEmailLen == 6
\* largest integer assigned to an age / people bound (the smallest is -1)
MaxBound == 0

----------------------------------------------------------------------------
(* Values *)

\* Python's None for an optional value; a present value v is <<v>>
None == <<>>
Some(v) == <<v>>

\* the object has no attribute `salt` (it is set only by set_password)
NoSalt == 0
Salts == 1..NumSalts

\* password column before set_password has run
NoHash == [kind |-> "None"]

Plaintexts == {"hunter2", "wrong"}

Iterations == 100000

\* hashlib.pbkdf2_hmac('sha256', password.encode('utf-8'), salt, iterations):
\* a deterministic derivation, injective in (password, salt, iterations)
pbkdf2_hmac(hash_name, password, salt, iterations) ==
    [kind |-> "pbkdf2_hmac", hash_name |-> hash_name, password |-> password,
     salt |-> salt, iterations |-> iterations]

Hashes == {pbkdf2_hmac("sha256", p, s, Iterations) : p \in Plaintexts, s \in Salts}

\* a Python bool as the caller prints it
PyBool(b) == IF b THEN "True" ELSE "False"

\* no table row / no object
NoRow == [kind |-> "NoRow"]
NoObject == [kind |-> "NoObject"]

InitialEmail == <<"a", "@", "a", ".", "a">>

\* datetime column not yet set
NoDate == [kind |-> "None"]

\* an Event as constructed with no optional argument given
NoEvent ==
    [min_age |-> None, max_age |-> None, min_people |-> None,
     max_people |-> None, date |-> NoDate]

\* a freshly registered User: every declared column set, password not yet
\* hashed, no salt attribute
NewUser ==
    [id |-> 1, username |-> "ana", password |-> NoHash, email |-> InitialEmail,
     first_name |-> "Ana", last_name |-> "Gil", followed_users |-> 0,
     users_following_me |-> 0, salt |-> NoSalt]

\* the columns class User declares (db.Column); `salt` is not among them
UserColumns ==
    {"id", "username", "password", "email", "first_name", "last_name",
     "followed_users", "users_following_me"}

----------------------------------------------------------------------------
(* User: password *)

set_password_reuse_salt(u, password, urandom) ==
    [u EXCEPT !.salt = urandom,
              !.password = pbkdf2_hmac("sha256", password, 1, Iterations)]

\* User.set_password: store the salt drawn from os.urandom, then the hash
set_password(u, password, urandom) ==
    [u EXCEPT !.salt = urandom,
              !.password = pbkdf2_hmac("sha256", password, urandom, Iterations)]

check_password_no_salt(u, password) ==
    IF u.salt = NoSalt
    THEN "AttributeError"
    ELSE IF pbkdf2_hmac("sha256", password, 1, Iterations) = u.password
         THEN "True" ELSE "False"

\* User.check_password: reading self.salt raises AttributeError when the
\* attribute was never set; otherwise compare the derived bytes
check_password(u, password) ==
    IF u.salt = NoSalt
    THEN "AttributeError"
    ELSE IF pbkdf2_hmac("sha256", password, u.salt, Iterations) = u.password
         THEN "True" ELSE "False"

serialize_with_password(u) ==
    [id |-> u.id, username |-> u.username, email |-> u.email,
     first_name |-> u.first_name, last_name |-> u.last_name,
     followed_users |-> u.followed_users,
     users_following_me |-> u.users_following_me,
     password |-> u.password]

\* User.serialize
serialize(u) ==
    [id |-> u.id, username |-> u.username, email |-> u.email,
     first_name |-> u.first_name, last_name |-> u.last_name,
     followed_users |-> u.followed_users,
     users_following_me |-> u.users_following_me]

\* the row written for a User: its declared columns
user_to_row(u) == [c \in UserColumns |-> u[c]]

\* a User object built from a row: the declared columns are populated, any
\* attribute that is not a column (salt) does not exist on the new object
load_row(row) ==
    [id |-> row.id, username |-> row.username, password |-> row.password,
     email |-> row.email, first_name |-> row.first_name,
     last_name |-> row.last_name, followed_users |-> row.followed_users,
     users_following_me |-> row.users_following_me, salt |-> NoSalt]

\* one call as the caller sees it, with the User object it leaves behind
Entry(op, arg, ret, u) == [op |-> op, arg |-> arg, ret |-> ret, user |-> u]

\* one call on an Event or on a string validator
Call(op, arg, ret) == [op |-> op, arg |-> arg, ret |-> ret, calls |-> <<>>]

UserFrame == UNCHANGED <<event, committed, checks_enforced, input, last>>

SetPassword ==
    /\ Len(trace) < MaxCalls
    /\ \E password \in Plaintexts, urandom \in Salts :
         /\ user' = set_password(user, password, urandom)
         /\ trace' = Append(trace, Entry("set_password", password, "None", user'))
    /\ UNCHANGED <<loaded, user_row>>
    /\ UserFrame

CheckPassword ==
    /\ Len(trace) < MaxCalls
    /\ \E password \in Plaintexts :
         trace' = Append(trace, Entry("check_password", password,
                                      check_password(user, password), user))
    /\ UNCHANGED <<user, loaded, user_row>>
    /\ UserFrame

Serialize ==
    /\ Len(trace) < MaxCalls
    /\ trace' = Append(trace, Entry("serialize", "None", serialize(user), user))
    /\ UNCHANGED <<user, loaded, user_row>>
    /\ UserFrame

\* db.session.add(user); db.session.commit(): the declared columns are written
StoreUser ==
    /\ Len(trace) < MaxCalls
    /\ user_row' = user_to_row(user)
    /\ trace' = Append(trace, Entry("store", "None", "None", user))
    /\ UNCHANGED <<user, loaded>>
    /\ UserFrame

\* the stored row is read back into a new User object
LoadUser ==
    /\ Len(trace) < MaxCalls
    /\ user_row # NoRow
    /\ loaded' = load_row(user_row)
    /\ trace' = Append(trace, Entry("load", "None", "None", user))
    /\ UNCHANGED <<user, user_row>>
    /\ UserFrame

\* check_password called on the object that was read back
CheckLoaded ==
    /\ Len(trace) < MaxCalls
    /\ loaded # NoObject
    /\ \E password \in Plaintexts :
         trace' = Append(trace, Entry("check_loaded", password,
                                      check_password(loaded, password), user))
    /\ UNCHANGED <<user, loaded, user_row>>
    /\ UserFrame

Init ==
    /\ user = NewUser
    /\ loaded = NoObject
    /\ user_row = NoRow
    /\ event = NoEvent
    /\ committed = NoRow
    /\ checks_enforced = TRUE
    /\ input = <<>>
    /\ last = Call("init", "None", "None")
    /\ trace = <<>>

Next ==
    \/ SetPassword
    \/ CheckPassword
    \/ Serialize
    \/ StoreUser
    \/ LoadUser
    \/ CheckLoaded

Spec == Init /\ [][Next]_vars

----------------------------------------------------------------------------
(* Properties of User (checked under Spec) *)

Calls == 1..Len(trace)

\* no call named op strictly between positions i and j of the trace
NoneBetween(op, i, j) == \A k \in Calls : (i < k /\ k < j) => trace[k].op # op

\* the User object before call i
UserBefore(i) == IF i = 1 THEN NewUser ELSE trace[i - 1].user

\* C2: after set_password(p) with no later set_password, check_password(c)
\* returns True when c = p and False when c differs from p, and
\* check_password leaves the stored hash and salt as they were.
PasswordRoundTrip ==
    \A i \in Calls, j \in Calls :
        ( /\ i < j
          /\ trace[i].op = "set_password"
          /\ trace[j].op = "check_password"
          /\ NoneBetween("set_password", i, j) )
        => /\ trace[j].ret = PyBool(trace[j].arg = trace[i].arg)
           /\ trace[j].user.password = UserBefore(j).password
           /\ trace[j].user.salt = UserBefore(j).salt

\* C2 witness: a wrong candidate was rejected after a set_password
PasswordRejected ==
    \E i \in Calls, j \in Calls :
        /\ i < j
        /\ trace[i].op = "set_password"
        /\ trace[j].op = "check_password"
        /\ NoneBetween("set_password", i, j)
        /\ trace[j].arg # trace[i].arg
        /\ trace[j].ret = "False"

\* two successive set_password calls with the same plaintext
SamePlaintextTwice(i) ==
    /\ i + 1 \in Calls
    /\ trace[i].op = "set_password"
    /\ trace[i + 1].op = "set_password"
    /\ trace[i + 1].arg = trace[i].arg

SerializedKeys ==
    {"id", "username", "email", "first_name", "last_name", "followed_users",
     "users_following_me"}

\* C5: serialize() returns exactly the seven enumerated keys in every
\* reachable User state, and Users that differ only in password hash and
\* salt serialize to the same mapping.
SerializeHidesPassword ==
    /\ DOMAIN serialize(user) = SerializedKeys
    /\ \A h \in Hashes \cup {NoHash}, s \in Salts \cup {NoSalt} :
         serialize([user EXCEPT !.password = h, !.salt = s]) = serialize(user)
    /\ \A i \in Calls :
         trace[i].op = "serialize" =>
             /\ DOMAIN trace[i].ret = SerializedKeys
             /\ \A k \in SerializedKeys : trace[i].ret[k] = trace[i].user[k]

\* C5 witness: serialize() was called on a User that holds a hash and a salt
SerializedAfterSetPassword ==
    \E i \in Calls :
        /\ trace[i].op = "serialize"
        /\ trace[i].user.password \in Hashes
        /\ trace[i].user.salt \in Salts

\* C10 as stated: after set_password(p), storing the User and reading the row
\* back gives a User on which check_password(p) returns True.
SaltSurvivesReload ==
    \A i \in Calls, j \in Calls, k \in Calls, l \in Calls :
        ( /\ i < j /\ j < k /\ k < l
          /\ trace[i].op = "set_password"
          /\ trace[j].op = "store"
          /\ trace[k].op = "load"
          /\ trace[l].op = "check_loaded"
          /\ NoneBetween("set_password", i, j)
          /\ NoneBetween("store", j, k)
          /\ NoneBetween("load", k, l)
          /\ trace[l].arg = trace[i].arg )
        => trace[l].ret = "True"

----------------------------------------------------------------------------
(* User: email *)

\* the characters of the bounded texts: an ASCII letter, dot, hyphen, at-sign,
\* line feed, and one non-ASCII letter (U+00F1)
EmailChars == {"a", ".", "-", "@", "\n", "U+00F1"}

EmailInputs == UNION {[1..n -> EmailChars] : n \in 0..MaxEmailLen}

\* \w of a Python 3 str pattern: Unicode letters, digits and underscore
IsWord(c) == c \in {"a", "U+00F1"}

\* the class [\w\.-]
IsLocalChar(c) == IsWord(c) \/ c = "." \/ c = "-"

\* where `$` can match: at the end of the text, or just before a line feed
\* that ends the text
DollarPositions(s) ==
    {Len(s)} \cup (IF Len(s) > 0 /\ s[Len(s)] = "\n" THEN {Len(s) - 1} ELSE {})

\* re.match(r'^[\w\.-]+@[\w\.-]+\.\w+$', s) is not None: some "@" at i and
\* some later "." at j split the text up to a `$` position e into three
\* non-empty runs of the right classes
re_match_email(s, ends) ==
    \E e \in ends : \E i \in 2..e : \E j \in (i + 2)..(e - 1) :
        /\ s[i] = "@"
        /\ s[j] = "."
        /\ \A k \in 1..(i - 1) : IsLocalChar(s[k])
        /\ \A k \in (i + 1)..(j - 1) : IsLocalChar(s[k])
        /\ \A k \in (j + 1)..e : IsWord(s[k])

\* User.validate_email
validate_email(email) == re_match_email(email, DollarPositions(email))

InvalidEmail == "ValueError: Invalid email address"

set_email_write_first(u, email) ==
    [user |-> [u EXCEPT !.email = email],
     ret |-> IF validate_email(email) THEN "None" ELSE InvalidEmail]

\* User.set_email: the object after the call and what the call raised
set_email(u, email) ==
    IF ~validate_email(email)
    THEN [user |-> u, ret |-> InvalidEmail]
    ELSE [user |-> [u EXCEPT !.email = email], ret |-> "None"]

EmailFrame == UNCHANGED <<loaded, user_row, event, committed, checks_enforced,
                          input, trace>>

ValidateEmail ==
    /\ last' = Call("validate_email", input, PyBool(validate_email(input)))
    /\ UNCHANGED user
    /\ EmailFrame

SetEmail ==
    /\ user' = set_email(user, input).user
    /\ last' = Call("set_email", input, set_email(user, input).ret)
    /\ EmailFrame

InitEmail ==
    /\ user = NewUser
    /\ loaded = NoObject
    /\ user_row = NoRow
    /\ event = NoEvent
    /\ committed = NoRow
    /\ checks_enforced = TRUE
    /\ input \in EmailInputs
    /\ last = Call("init", <<>>, "None")
    /\ trace = <<>>

NextEmail ==
    \/ ValidateEmail
    \/ SetEmail

SpecEmail == InitEmail /\ [][NextEmail]_vars

\* C4: set_email(candidate) raises and leaves every User field as it was when
\* validate_email(candidate) is false; otherwise it stores candidate as the
\* email and changes no other field.
SetEmailNoPartialWrite ==
    [][ last'.op = "set_email" =>
          IF validate_email(input)
          THEN /\ last'.ret = "None"
               /\ user' = [user EXCEPT !.email = input]
          ELSE /\ last'.ret = InvalidEmail
               /\ user' = user ]_vars

\* C4 witness: set_email was refused and the stored email is the old one
SetEmailRefused ==
    /\ last.op = "set_email"
    /\ last.ret = InvalidEmail
    /\ \E i \in 1..Len(input) : input[i] = "@"
    /\ user.email = InitialEmail

\* the end of the text, the only place the whole-string form may stop
EndOnlyPositions(s) == {Len(s)}

\* the form the claim describes: the whole text is local@domain.tld with
\* ASCII word characters only
ClaimedEmailForm(s) ==
    /\ \A k \in 1..Len(s) : s[k] # "U+00F1"
    /\ re_match_email(s, EndOnlyPositions(s))

\* C9 as stated: validate_email(s) is true exactly when the whole of s has
\* the form local@domain.tld over ASCII word characters, dots and hyphens,
\* and it does not modify the User.
ValidateEmailWholeString ==
    [][ last'.op = "validate_email" =>
          /\ user' = user
          /\ (last'.ret = "True") <=> ClaimedEmailForm(input) ]_vars

----------------------------------------------------------------------------
(* Event: range validation and save *)

\* the values a caller assigns to min_age, max_age, min_people, max_people
BoundValues == {None} \cup {Some(v) : v \in (-1)..MaxBound}

BoundFields == {"min_age", "max_age", "min_people", "max_people"}

AgeRangeError == "ValueError: min_age must be less than or equal to max_age"
PeopleRangeError == "ValueError: min_people must be less than or equal to max_people"

validate_age_range_strict(e) ==
    IF e.min_age # None /\ e.max_age # None /\ e.min_age[1] >= e.max_age[1]
    THEN AgeRangeError
    ELSE "None"

\* Event.validate_age_range: what the call raises ("None" when it returns)
validate_age_range(e) ==
    IF e.min_age # None /\ e.max_age # None
    THEN IF e.min_age[1] > e.max_age[1] THEN AgeRangeError ELSE "None"
    ELSE "None"

\* Event.validate_people_range
validate_people_range(e) ==
    IF e.min_people # None /\ e.max_people # None
    THEN IF e.min_people[1] > e.max_people[1] THEN PeopleRangeError ELSE "None"
    ELSE "None"

\* one CHECK constraint `a >= b` as SQL evaluates it: it is violated only
\* when the comparison is false, and a comparison with NULL is not false
SqlGeq(a, b) == a = None \/ b = None \/ a[1] >= b[1]

\* Event.__table_args__
check_constraints(row) ==
    /\ SqlGeq(row.min_age, Some(0))
    /\ SqlGeq(row.max_age, row.min_age)
    /\ SqlGeq(row.min_people, Some(0))
    /\ SqlGeq(row.max_people, row.min_people)

DbCall(fn, row) == [fn |-> fn, row |-> row]

\* db.session.add(self); db.session.commit(): the row is written unless the
\* engine enforces the CHECK constraints and the row violates one
session_add_commit(e, db, enforced) ==
    [calls |-> <<DbCall("add", e), DbCall("commit", e)>>,
     ret |-> IF enforced /\ ~check_constraints(e) THEN "IntegrityError" ELSE "None",
     committed |-> IF enforced /\ ~check_constraints(e) THEN db ELSE e]

save_then_validate(e, db, enforced) ==
    LET done == session_add_commit(e, db, enforced) IN
    IF validate_age_range(e) # "None"
    THEN [done EXCEPT !.ret = validate_age_range(e)]
    ELSE IF validate_people_range(e) # "None"
         THEN [done EXCEPT !.ret = validate_people_range(e)]
         ELSE done

\* Event.save: the calls made on db.session, what save() raises and the
\* stored row afterwards
save(e, db, enforced) ==
    IF validate_age_range(e) # "None"
    THEN [calls |-> <<>>, ret |-> validate_age_range(e), committed |-> db]
    ELSE IF validate_people_range(e) # "None"
         THEN [calls |-> <<>>, ret |-> validate_people_range(e), committed |-> db]
         ELSE session_add_commit(e, db, enforced)

EventFrame == UNCHANGED <<user, loaded, user_row, checks_enforced, input, trace>>

\* direct assignment to one of the four optional integer columns
Assign ==
    /\ \E f \in BoundFields, v \in BoundValues :
         event' = [event EXCEPT ![f] = v]
    /\ last' = Call("assign", <<>>, "None")
    /\ UNCHANGED committed
    /\ EventFrame

ValidateAgeRange ==
    /\ last' = Call("validate_age_range", <<>>, validate_age_range(event))
    /\ UNCHANGED <<event, committed>>
    /\ EventFrame

ValidatePeopleRange ==
    /\ last' = Call("validate_people_range", <<>>, validate_people_range(event))
    /\ UNCHANGED <<event, committed>>
    /\ EventFrame

Save ==
    /\ last' = [op |-> "save", arg |-> <<>>,
                ret |-> save(event, committed, checks_enforced).ret,
                calls |-> save(event, committed, checks_enforced).calls]
    /\ committed' = save(event, committed, checks_enforced).committed
    /\ UNCHANGED event
    /\ EventFrame

InitEvent ==
    /\ user = NewUser
    /\ loaded = NoObject
    /\ user_row = NoRow
    /\ event = NoEvent
    /\ committed = NoRow
    /\ checks_enforced \in BOOLEAN
    /\ input = <<>>
    /\ last = Call("init", <<>>, "None")
    /\ trace = <<>>

NextEvent ==
    \/ Assign
    \/ ValidateAgeRange
    \/ ValidatePeopleRange
    \/ Save

SpecEvent == InitEvent /\ [][NextEvent]_vars

\* both bounds of a pair are present and the lower exceeds the upper
Inverted(lo, hi) == lo # None /\ hi # None /\ lo[1] > hi[1]

\* C1: save() validates the age range, then the people range, before any
\* persistence step; when either fails it raises that error, calls neither
\* db.session.add nor db.session.commit and leaves the store as it was; when
\* both pass it calls add and then commit with the record.
SaveValidatesFirst ==
    [][ last'.op = "save" =>
          IF Inverted(event.min_age, event.max_age)
          THEN /\ last'.ret = AgeRangeError
               /\ last'.calls = <<>>
               /\ committed' = committed
          ELSE IF Inverted(event.min_people, event.max_people)
               THEN /\ last'.ret = PeopleRangeError
                    /\ last'.calls = <<>>
                    /\ committed' = committed
               ELSE /\ last'.calls = <<DbCall("add", event), DbCall("commit", event)>>
                    /\ last'.ret \in {"None", "IntegrityError"}
                    /\ (last'.ret = "None" => committed' = event) ]_vars

\* C1 witness: save() refused an Event with inverted people bounds while the
\* store held an earlier row
SaveRefusedPeople ==
    /\ last.op = "save"
    /\ last.ret = PeopleRangeError
    /\ last.calls = <<>>
    /\ committed # NoRow
    /\ committed # event

\* C6: each validator raises exactly when both bounds of its pair are
\* present and min > max, returns otherwise (min = max or a bound absent
\* included), and never modifies the Event.
ValidatorsRaiseIffInverted ==
    [][ /\ last'.op = "validate_age_range" =>
             /\ (last'.ret = AgeRangeError) <=> Inverted(event.min_age, event.max_age)
             /\ last'.ret \in {AgeRangeError, "None"}
             /\ event' = event
             /\ committed' = committed
        /\ last'.op = "validate_people_range" =>
             /\ (last'.ret = PeopleRangeError) <=> Inverted(event.min_people, event.max_people)
             /\ last'.ret \in {PeopleRangeError, "None"}
             /\ event' = event
             /\ committed' = committed ]_vars

\* C6 witness: validate_age_range returned without error on min_age = max_age
ValidatedEqualAges ==
    /\ last.op = "validate_age_range"
    /\ last.ret = "None"
    /\ event.min_age # None
    /\ event.min_age = event.max_age

\* C7 as stated: every Event record save() hands to persistence has
\* min_age >= 0 when min_age is present and min_people >= 0 when min_people
\* is present.
HandedRecordsNonNegative ==
    last.op = "save" =>
        \A i \in 1..Len(last.calls) :
            /\ SqlGeq(last.calls[i].row.min_age, Some(0))
            /\ SqlGeq(last.calls[i].row.min_people, Some(0))

----------------------------------------------------------------------------
(* Event: date *)

DigitChars == <<"0", "1", "2", "3", "4", "5", "6", "7", "8", "9">>

IsDigit(c) == \E i \in 1..10 : DigitChars[i] = c

DigitVal(c) == (CHOOSE i \in 1..10 : DigitChars[i] = c) - 1

IsDigits(t) == \A k \in 1..Len(t) : IsDigit(t[k])

\* int(t) for a run of digits
RECURSIVE IntOf(_)
IntOf(t) ==
    IF Len(t) = 0 THEN 0
    ELSE 10 * IntOf(SubSeq(t, 1, Len(t) - 1)) + DigitVal(t[Len(t)])

\* the text a directive may consume, leading blank dropped as int() drops it
Stripped(t) == IF Len(t) > 0 /\ t[1] = " " THEN Tail(t) ELSE t

\* %d is the pattern 3[0-1]|[1-2]\d|0[1-9]|[1-9]| [1-9]
MatchesDay(t) ==
    \/ Len(t) = 1 /\ IsDigit(t[1]) /\ t[1] # "0"
    \/ /\ Len(t) = 2
       /\ \/ t[1] = "3" /\ t[2] \in {"0", "1"}
          \/ t[1] \in {"1", "2"} /\ IsDigit(t[2])
          \/ t[1] \in {"0", " "} /\ IsDigit(t[2]) /\ t[2] # "0"

\* %m is the pattern 1[0-2]|0[1-9]|[1-9]
MatchesMonth(t) ==
    \/ Len(t) = 1 /\ IsDigit(t[1]) /\ t[1] # "0"
    \/ /\ Len(t) = 2
       /\ \/ t[1] = "1" /\ t[2] \in {"0", "1", "2"}
          \/ t[1] = "0" /\ IsDigit(t[2]) /\ t[2] # "0"

\* %Y is the pattern \d\d\d\d
MatchesYear(t) == Len(t) = 4 /\ IsDigits(t)

IsLeap(y) == y % 4 = 0 /\ (y % 100 # 0 \/ y % 400 = 0)

DaysInMonth(y, m) ==
    IF m = 2 THEN (IF IsLeap(y) THEN 29 ELSE 28)
    ELSE IF m \in {4, 6, 9, 11} THEN 30 ELSE 31

\* datetime(year, month, day) accepts the triple (MINYEAR is 1)
ValidCalendarDate(y, m, d) ==
    /\ y >= 1
    /\ m \in 1..12
    /\ d \in 1..DaysInMonth(y, m)

\* positions i < j of the two "-" that split the text into day, month and a
\* year of four characters; the directives match no "-", so the first two
\* "-" are the only candidates
Splits(s) ==
    {p \in (1..Len(s)) \X (1..Len(s)) :
        /\ p[1] < p[2]
        /\ s[p[1]] = "-"
        /\ s[p[2]] = "-"
        /\ p[2] + 4 <= Len(s)
        /\ MatchesDay(SubSeq(s, 1, p[1] - 1))
        /\ MatchesMonth(SubSeq(s, p[1] + 1, p[2] - 1))
        /\ MatchesYear(SubSeq(s, p[2] + 1, p[2] + 4))}

\* datetime.strptime(s, '%d-%m-%Y'): the format must match from the start,
\* no text may remain after the year, and the fields must name a real date
strptime(s) ==
    IF Splits(s) = {}
    THEN [ok |-> FALSE, date |-> NoDate]
    ELSE LET p == CHOOSE q \in Splits(s) : TRUE
             d == IntOf(Stripped(SubSeq(s, 1, p[1] - 1)))
             m == IntOf(SubSeq(s, p[1] + 1, p[2] - 1))
             y == IntOf(SubSeq(s, p[2] + 1, p[2] + 4))
         IN IF p[2] + 4 # Len(s) \/ ~ValidCalendarDate(y, m, d)
            THEN [ok |-> FALSE, date |-> NoDate]
            ELSE [ok |-> TRUE, date |-> [year |-> y, month |-> m, day |-> d]]

\* Event.validate_date
validate_date(date_str) == strptime(date_str).ok

InvalidDate == "ValueError: Invalid date format. Date should be in the format 'DD-MM-YYYY'"

\* Event.set_date: the object after the call and what the call raised
set_date(e, date_str) ==
    IF ~validate_date(date_str)
    THEN [event |-> e, ret |-> InvalidDate]
    ELSE [event |-> [e EXCEPT !.date = strptime(date_str).date], ret |-> "None"]

\* the field texts the date inputs are built from
DateFields ==
    {<<"1">>, <<"2">>, <<"0">>, <<"0", "1">>, <<"0", "2">>, <<"0", "0">>,
     <<"1", "2">>, <<"1", "3">>, <<"2", "9">>, <<"3", "0">>, <<"3", "1">>,
     <<"3", "2">>, <<" ", "1">>, <<"0", "4">>,
     <<"2", "0", "2", "4">>, <<"2", "0", "2", "3">>, <<"0", "0", "0", "0">>,
     <<"1", "9", "0", "0">>, <<"0", "2", "4">>}

DateTails == {<<>>, <<"0">>, <<" ">>}

\* three fields joined by "-" or "/", possibly followed by one more character
DateInputs ==
    {a \o <<sep>> \o b \o <<sep>> \o c \o t :
        a \in DateFields, b \in DateFields, c \in DateFields,
        sep \in {"-", "/"}, t \in DateTails}

DateFrame == UNCHANGED <<user, loaded, user_row, committed, checks_enforced,
                         input, trace>>

ValidateDate ==
    /\ last' = Call("validate_date", input, PyBool(validate_date(input)))
    /\ UNCHANGED event
    /\ DateFrame

SetDate ==
    /\ event' = set_date(event, input).event
    /\ last' = Call("set_date", input, set_date(event, input).ret)
    /\ DateFrame

InitDate ==
    /\ user = NewUser
    /\ loaded = NoObject
    /\ user_row = NoRow
    /\ event = NoEvent
    /\ committed = NoRow
    /\ checks_enforced = TRUE
    /\ input \in DateInputs
    /\ last = Call("init", <<>>, "None")
    /\ trace = <<>>

NextDate ==
    \/ ValidateDate
    \/ SetDate

SpecDate == InitDate /\ [][NextDate]_vars

\* the form the claim describes: two-digit day, "-", two-digit month, "-",
\* four-digit year, naming a real calendar date
ClaimedDateForm(s) ==
    /\ Len(s) = 10
    /\ s[3] = "-"
    /\ s[6] = "-"
    /\ IsDigits(SubSeq(s, 1, 2))
    /\ IsDigits(SubSeq(s, 4, 5))
    /\ IsDigits(SubSeq(s, 7, 10))
    /\ ValidCalendarDate(IntOf(SubSeq(s, 7, 10)), IntOf(SubSeq(s, 4, 5)),
                         IntOf(SubSeq(s, 1, 2)))

\* C8 as stated: set_date(text) raises and leaves the stored date unchanged
\* when validate_date(text) is false and otherwise stores the parsed date;
\* validate_date(text) is true exactly when text is a day-month-year date
\* with a two-digit day, a two-digit month and a four-digit year.
ValidateDateTwoDigitForm ==
    [][ /\ last'.op = "validate_date" =>
             (last'.ret = "True") <=> ClaimedDateForm(input)
        /\ last'.op = "set_date" =>
             IF ClaimedDateForm(input)
             THEN /\ last'.ret = "None"
                  /\ event'.date = [year |-> IntOf(SubSeq(input, 7, 10)),
                                    month |-> IntOf(SubSeq(input, 4, 5)),
                                    day |-> IntOf(SubSeq(input, 1, 2))]
             ELSE /\ last'.ret = InvalidDate
                  /\ event' = event ]_vars

====
